---- MODULE Spec2Model ----
(***************************************************************************)
(* A model of asrinput: the capture session (asrinput/audio.py), the       *)
(* transcription adapter (asrinput/recognizer.py) and the orchestrator     *)
(* (asrinput/app.py).  Every Python statement that reads or writes shared  *)
(* state is one step of the thread that executes it, so that the threads   *)
(* interleave as they do under the interpreter lock.                        *)
(***************************************************************************)
EXTENDS Integers, Sequences, FiniteSets, TLC

\* ------------------------------------------------------------------ bounds
\* Blocks held at one time: in the buffer, in a callback or a stop() in
\* progress, or in a segment that was returned and not yet consumed.
MaxChunks == 3
\* Hardware stream handles that can be open or referenced at one time.
MaxStreams == 2
\* Input device indices are 0..MaxDevice.
MaxDevice == 1
\* Continuous-recognition loop threads and push-to-talk workers alive at one
\* time.
\* Blocks in the buffer when they are not told apart, and callbacks
\* scheduled on the control thread and not yet run.
MaxBuffer == 5
MaxPending == 1
MaxLoops == 2
MaxWorkers == 2
\* The user's actions in one behaviour: clicks on the toggle switch, presses
\* and releases of the push-to-talk key, settings applied, closing the window.
MaxActions == 2

\* -------------------------------------------------------- program constants
DEFAULT_SAMPLE_RATE == 16000
\* DEFAULT_BLOCK_SECONDS = 0.1, held in tenths of a second.
DEFAULT_BLOCK_TENTHS == 1
\* blocksize=int(self.sample_rate * self.block_seconds)
BlockSize == (DEFAULT_SAMPLE_RATE * DEFAULT_BLOCK_TENTHS) \div 10
\* self.stream = None
NoStream == 0
\* self.device = None (the default input device)
NoDevice == -1

Streams == 1..MaxStreams
Devices == {NoDevice} \cup (0..MaxDevice)
Chunks == 1..MaxChunks
\* A block that is not told apart from the others.
Block == MaxChunks + 1
\* The threads that call into the capture session and the adapter: the
\* control thread (Tk main loop) first.
Ctl == <<"ctl", 0>>
Load == <<"load", 0>>
NoThread == <<"none", 0>>
Kbd == <<"kbd", 0>>
Loop(i) == <<"loop", i>>
Worker(i) == <<"ptt", i>>
Loops == {Loop(i) : i \in 1..MaxLoops}
Workers == {Worker(i) : i \in 1..MaxWorkers}
Threads == {Ctl, Load, Kbd} \cup Loops \cup Workers

\* stop() returns None or the flattened concatenation of the buffered blocks;
\* a block is named by its number and holds BlockSize samples.
NoneSeg == [some |-> FALSE, chunks |-> <<>>]
Segment(cs) == [some |-> TRUE, chunks |-> cs]
\* len(audio_data) of a segment returned by stop()
SampleCount(seg) == Len(seg.chunks) * BlockSize

VARIABLES
    \* AudioCapture
    stream, device, is_recording, buffer, lock,
    \* the hardware layer: each stream handle's state and the device it was
    \* opened with; the block each stream's callback holds while it waits
    \* for the lock (0: no callback in progress)
    hw, cb,
    \* threads: position, continuation of the call in progress, the stream a
    \* start() has constructed and not yet stored, the array stop() has
    \* concatenated, the value stop() returned, the argument of the call,
    \* whether the last call raised
    pc, ret, new, cat, seg, arg, exc,
    \* history: the blocks appended since the last start() cleared the
    \* buffer, whether a block was appended since the
    \* last drain, how often each block was returned by stop(), and what the
    \* session's client saw when it issued its last call
    sinceStart, fresh, handed, snap,
    \* how many stop() calls returned since the last start() cleared the
    \* buffer (2: two or more), whether a block had been appended between the
    \* last two drains, and the argument of the client's last set_device
    stops, drainedFresh, lastSet,
    \* SpeechRecognizer: whether self.model is set, the _loaded event, the
    \* _loading flag; the threads whose temporary wav file exists, and
    \* whether a finished call left its file behind (0 or 1)
    model, loaded, loading, files, leaked,
    \* transcribe() in each thread: its audio_data argument, the text it
    \* returned, and what the call in progress (or the last one) did
    audio, text, used,
    \* load_model: how often the callback was invoked with success and with
    \* failure (2: two or more), the load_model calls issued, and
    \* self.language
    cbOk, cbFail, nloads, language,
    \* ASRApp: the mode flags, the should_stop event, the toggle switch's
    \* variable and whether the switch is enabled, the callbacks scheduled
    \* with after(0, ...) in order, the status label, whether the keyboard
    \* listener runs and whether the window is destroyed
    is_toggle_active, is_ptt_active, should_stop, toggle_var, toggle_enabled,
    afterq, status, listening, closed,
    \* history: the user's actions so far, and the capture start() and stop()
    \* calls that push-to-talk has made
    ntoggles, nkeys, napplies, pttStarts, pttStops,
    \* history of continuous mode: the capture calls made since it was last
    \* enabled (the first MaxCalls of them), and the loop threads that were
    \* running when it was disabled or the window was closed
    calls, cancelled

audioVars == <<stream, device, is_recording, buffer, lock, hw, cb>>
histVars == <<sinceStart, fresh, handed, stops, drainedFresh>>
recVars == <<model, loaded, loading, files, leaked, cbOk, cbFail, nloads,
             language>>
recAll == <<recVars, audio, text, used>>
audioAll == <<audioVars, new, cat, seg, arg, histVars>>
appFlags == <<is_toggle_active, is_ptt_active, should_stop, toggle_var,
              toggle_enabled, listening, closed>>
appHist == <<ntoggles, nkeys, napplies>>
pttHist == <<pttStarts, pttStops>>
contHist == <<calls, cancelled>>
appAll == <<appFlags, afterq, status, appHist, pttHist, contHist>>

\* The user's actions so far: clicks on the switch, key events, settings
\* applied, and closing the window.
UserActs == ntoggles + nkeys + napplies + (IF listening THEN 0 ELSE 1)

vars == <<stream, device, is_recording, buffer, lock, hw, cb,
          pc, ret, new, cat, seg, arg, exc,
          sinceStart, fresh, handed, snap,
          stops, drainedFresh, lastSet, recAll, appAll>>

\* The capture calls of one continuous session that are told apart.
MaxCalls == 4
\* The history q with the call x added.
Log(q, x) == IF Len(q) < MaxCalls THEN Append(q, x) ELSE q


FreeHw == [st |-> "free", dev |-> NoDevice]

\* A closed handle that nothing refers to any more is gone.
Collect(h, ref) ==
    [s \in Streams |-> IF h[s].st = "closed" /\ s # ref THEN FreeHw ELSE h[s]]

\* A count kept up to "two or more".
Bump(n) == IF n < 2 THEN n + 1 ELSE 2

\* ----------------------------------------------------------- thread steps
Goto(t, label) == pc' = [pc EXCEPT ![t] = label]
Return(t) == pc' = [pc EXCEPT ![t] = ret[t]]
\* An exception leaves the call: the control thread's handler is abandoned
\* (Tk reports the error and goes on), any other thread dies.
Raise(t) ==
    /\ pc' = [pc EXCEPT ![t] = IF t = Ctl THEN "idle" ELSE "dead"]
    /\ exc' = [exc EXCEPT ![t] = TRUE]

\* The blocks of a sequence.
Elems(q) == {q[i] : i \in 1..Len(q)}

\* The blocks something still holds: the buffer, a callback in progress, a
\* stop() in progress or its result, and the history.  A block nothing holds
\* is gone, and its name is free for the next block the hardware delivers.
Held ==
    Elems(buffer) \cup Elems(sinceStart) \cup Elems(snap.since)
        \cup Elems(snap.buffer)
        \cup {cb[s] : s \in Streams}
        \cup UNION {Elems(cat[t]) \cup Elems(seg[t].chunks) : t \in Threads}
Unheld == Chunks \ Held

\* ------------------------------------------------------ hardware callback
\* if self.is_recording: ... (the callback of an active stream is entered
\* with the next block)
CallbackCheck(s, named) ==
    /\ hw[s].st = "active"
    /\ cb[s] = 0
    /\ is_recording
    /\ IF named
       THEN /\ Unheld # {}
            /\ LET c == CHOOSE x \in Unheld : \A y \in Unheld : x <= y IN
                /\ cb' = [cb EXCEPT ![s] = c]
                /\ handed' = [handed EXCEPT ![c] = 0]
       ELSE /\ Len(buffer) + Cardinality({r \in Streams : cb[r] # 0}) < MaxBuffer
            /\ cb' = [cb EXCEPT ![s] = Block]
            /\ UNCHANGED handed
    /\ UNCHANGED <<stream, device, is_recording, buffer, lock, hw,
                   pc, ret, new, cat, seg, arg, exc,
                   sinceStart, fresh, snap,
                   stops, drainedFresh, lastSet, recAll, appAll>>

\* Mutant: the callback puts the new block in front (buffer.insert(0, ...)).
CallbackAppend_prepend(s) ==
    /\ cb[s] # 0
    /\ lock = NoThread
    /\ buffer' = <<cb[s]>> \o buffer
    /\ sinceStart' = IF cb[s] = Block THEN sinceStart ELSE Append(sinceStart, cb[s])
    /\ fresh' = TRUE
    /\ cb' = [cb EXCEPT ![s] = 0]
    /\ UNCHANGED <<stream, device, is_recording, lock, hw,
                   pc, ret, new, cat, seg, arg, exc,
                   handed, snap, stops, drainedFresh, lastSet, recAll, appAll>>

\* with self._lock: self._buffer.append(indata.copy())
CallbackAppend(s) ==
    /\ cb[s] # 0
    /\ lock = NoThread
    /\ buffer' = Append(buffer, cb[s])
    /\ sinceStart' = IF cb[s] = Block THEN sinceStart ELSE Append(sinceStart, cb[s])
    /\ fresh' = TRUE
    /\ cb' = [cb EXCEPT ![s] = 0]
    /\ UNCHANGED <<stream, device, is_recording, lock, hw,
                   pc, ret, new, cat, seg, arg, exc,
                   handed, snap, stops, drainedFresh, lastSet, recAll, appAll>>

\* ------------------------------------------------------ AudioCapture.start
\* _ensure_stream: if self.stream is None
StartCheck(t) ==
    /\ pc[t] = "start_check"
    /\ Goto(t, IF stream = NoStream THEN "start_open" ELSE "start_flag")
    /\ UNCHANGED <<audioVars, ret, new, cat, seg, arg, exc, histVars, snap, lastSet, recAll, appAll>>

\* Mutant: _ensure_stream swallows the error of a failed open and start()
\* goes on.
StartOpen_swallow(t) ==
    /\ pc[t] = "start_open"
    /\ \E ok \in BOOLEAN :
        IF ok
        THEN /\ \E s \in Streams :
                   /\ hw[s].st = "free"
                   /\ \A r \in Streams : r < s => hw[r].st # "free"
                   /\ hw' = [hw EXCEPT ![s] = [st |-> "stopped", dev |-> device]]
                   /\ new' = [new EXCEPT ![t] = s]
             /\ Goto(t, "start_assign")
        ELSE /\ Goto(t, "start_flag")
             /\ UNCHANGED <<hw, new>>
    /\ UNCHANGED <<stream, device, is_recording, buffer, lock, cb,
                   ret, cat, seg, arg, exc, histVars, snap, lastSet, recAll, appAll>>

\* sd.InputStream(..., device=self.device): opens a stream on the selected
\* device, or raises when the device cannot be opened
StartOpen(t) ==
    /\ pc[t] = "start_open"
    /\ \E ok \in BOOLEAN :
        IF ok
        THEN /\ \E s \in Streams :
                   /\ hw[s].st = "free"
                   /\ \A r \in Streams : r < s => hw[r].st # "free"
                   /\ hw' = [hw EXCEPT ![s] = [st |-> "stopped", dev |-> device]]
                   /\ new' = [new EXCEPT ![t] = s]
             /\ Goto(t, "start_assign")
             /\ UNCHANGED exc
        ELSE /\ Raise(t)
             /\ UNCHANGED <<hw, new>>
    /\ UNCHANGED <<stream, device, is_recording, buffer, lock, cb,
                   ret, cat, seg, arg, histVars, snap, lastSet, recAll, appAll>>

\* self.stream = <the stream just constructed>
StartAssign(t) ==
    /\ pc[t] = "start_assign"
    /\ stream' = new[t]
    /\ new' = [new EXCEPT ![t] = NoStream]
    /\ hw' = Collect(hw, new[t])
    /\ Goto(t, "start_flag")
    /\ UNCHANGED <<device, is_recording, buffer, lock, cb,
                   ret, cat, seg, arg, exc, histVars, snap, lastSet, recAll, appAll>>

\* self.is_recording = True
StartFlag(t) ==
    /\ pc[t] = "start_flag"
    /\ is_recording' = TRUE
    /\ Goto(t, "start_clear")
    /\ UNCHANGED <<stream, device, buffer, lock, hw, cb,
                   ret, new, cat, seg, arg, exc, histVars, snap, lastSet, recAll, appAll>>

\* self._buffer.clear()
StartClear(t) ==
    /\ pc[t] = "start_clear"
    /\ buffer' = <<>>
    /\ sinceStart' = <<>>
    /\ stops' = 0
    /\ Goto(t, "start_if")
    /\ UNCHANGED <<stream, device, is_recording, lock, hw, cb,
                   ret, new, cat, seg, arg, exc, fresh, handed, snap,
                   drainedFresh, lastSet, recAll, appAll>>

\* if self.stream:
StartIf(t) ==
    /\ pc[t] = "start_if"
    /\ IF stream # NoStream THEN Goto(t, "start_stream") ELSE Return(t)
    /\ UNCHANGED <<audioVars, ret, new, cat, seg, arg, exc, histVars, snap, lastSet, recAll, appAll>>

\* self.stream.start(): a started stream stays started; None has no start()
\* and a closed handle is refused by the hardware layer
StartStream(t) ==
    /\ pc[t] = "start_stream"
    /\ IF stream = NoStream \/ hw[stream].st = "closed"
       THEN /\ Raise(t)
            /\ UNCHANGED hw
       ELSE /\ hw' = [hw EXCEPT ![stream].st = "active"]
            /\ Return(t)
            /\ UNCHANGED exc
    /\ UNCHANGED <<stream, device, is_recording, buffer, lock, cb,
                   ret, new, cat, seg, arg, histVars, snap, lastSet, recAll, appAll>>

\* ------------------------------------------------------- AudioCapture.stop
\* self.is_recording = False
StopFlag(t) ==
    /\ pc[t] = "stop_flag"
    /\ is_recording' = FALSE
    /\ Goto(t, "stop_if")
    /\ UNCHANGED <<stream, device, buffer, lock, hw, cb,
                   ret, new, cat, seg, arg, exc, histVars, snap, lastSet, recAll, appAll>>

\* if self.stream:
StopIf(t) ==
    /\ pc[t] = "stop_if"
    /\ Goto(t, IF stream # NoStream THEN "stop_stream" ELSE "stop_lock")
    /\ UNCHANGED <<audioVars, ret, new, cat, seg, arg, exc, histVars, snap, lastSet, recAll, appAll>>

\* Mutant: the stream is stopped without waiting for the callback in
\* progress (an abort in place of a stop).
StopStream_nowait(t) ==
    /\ pc[t] = "stop_stream"
    /\ IF stream = NoStream \/ hw[stream].st = "closed"
       THEN /\ Raise(t)
            /\ UNCHANGED hw
       ELSE /\ hw' = [hw EXCEPT ![stream].st = "stopped"]
            /\ Goto(t, "stop_lock")
            /\ UNCHANGED exc
    /\ UNCHANGED <<stream, device, is_recording, buffer, lock, cb,
                   ret, new, cat, seg, arg, histVars, snap, lastSet, recAll, appAll>>

\* self.stream.stop(): returns once the callback in progress has finished
StopStream(t) ==
    /\ pc[t] = "stop_stream"
    /\ IF stream = NoStream \/ hw[stream].st = "closed"
       THEN /\ Raise(t)
            /\ UNCHANGED hw
       ELSE /\ cb[stream] = 0
            /\ hw' = [hw EXCEPT ![stream].st = "stopped"]
            /\ Goto(t, "stop_lock")
            /\ UNCHANGED exc
    /\ UNCHANGED <<stream, device, is_recording, buffer, lock, cb,
                   ret, new, cat, seg, arg, histVars, snap, lastSet, recAll, appAll>>

\* Mutant: the test for an empty buffer is missing, so stop() always goes on
\* to concatenate.
StopLock_nocheck(t) ==
    /\ pc[t] = "stop_lock"
    /\ lock = NoThread
    /\ lock' = t
    /\ Goto(t, "stop_concat")
    /\ UNCHANGED <<stream, device, is_recording, buffer, hw, cb,
                   ret, new, cat, seg, arg, exc, histVars, snap, lastSet, recAll, appAll>>

\* with self._lock: if not self._buffer: return None
StopLock(t) ==
    /\ pc[t] = "stop_lock"
    /\ lock = NoThread
    /\ IF buffer = <<>>
       THEN /\ seg' = [seg EXCEPT ![t] = NoneSeg]
            /\ fresh' = FALSE
            /\ drainedFresh' = fresh
            /\ stops' = Bump(stops)
            /\ Return(t)
            /\ UNCHANGED lock
       ELSE /\ lock' = t
            /\ Goto(t, "stop_concat")
            /\ UNCHANGED <<seg, fresh, drainedFresh, stops>>
    /\ UNCHANGED <<stream, device, is_recording, buffer, hw, cb,
                   ret, new, cat, arg, exc, sinceStart, handed, snap,
                   lastSet, recAll, appAll>>

\* audio_data = np.concatenate(self._buffer, axis=0): raises on an empty
\* list, and the with statement releases the lock
StopConcat(t) ==
    /\ pc[t] = "stop_concat"
    /\ IF buffer = <<>>
       THEN /\ lock' = NoThread
            /\ Raise(t)
            /\ UNCHANGED cat
       ELSE /\ cat' = [cat EXCEPT ![t] = buffer]
            /\ Goto(t, "stop_clear")
            /\ UNCHANGED <<lock, exc>>
    /\ UNCHANGED <<stream, device, is_recording, buffer, hw, cb,
                   ret, new, seg, arg, histVars, snap, lastSet, recAll, appAll>>

\* Mutant: stop() returns the blocks and leaves them in the buffer.
StopClear_keep(t) ==
    /\ pc[t] = "stop_clear"
    /\ lock' = NoThread
    /\ fresh' = FALSE
    /\ drainedFresh' = fresh
    /\ stops' = Bump(stops)
    /\ seg' = [seg EXCEPT ![t] = Segment(cat[t])]
    /\ cat' = [cat EXCEPT ![t] = <<>>]
    /\ handed' = [c \in Chunks |->
                    IF \E i \in 1..Len(cat[t]) : cat[t][i] = c
                    THEN (IF handed[c] < 2 THEN handed[c] + 1 ELSE 2)
                    ELSE handed[c]]
    /\ Return(t)
    /\ UNCHANGED <<stream, device, is_recording, buffer, hw, cb,
                   ret, new, arg, exc, sinceStart, snap, lastSet, recAll, appAll>>

\* self._buffer.clear(); (lock released) return audio_data.flatten()
StopClear(t) ==
    /\ pc[t] = "stop_clear"
    /\ buffer' = <<>>
    /\ lock' = NoThread
    /\ fresh' = FALSE
    /\ drainedFresh' = fresh
    /\ stops' = Bump(stops)
    /\ seg' = [seg EXCEPT ![t] = Segment(cat[t])]
    /\ cat' = [cat EXCEPT ![t] = <<>>]
    /\ handed' = [c \in Chunks |->
                    IF \E i \in 1..Len(cat[t]) : cat[t][i] = c
                    THEN (IF handed[c] < 2 THEN handed[c] + 1 ELSE 2)
                    ELSE handed[c]]
    /\ Return(t)
    /\ UNCHANGED <<stream, device, is_recording, hw, cb,
                   ret, new, arg, exc, sinceStart, snap, lastSet, recAll, appAll>>

\* ------------------------------------------------- AudioCapture.set_device
\* if self.stream:
SetDeviceIf(t) ==
    /\ pc[t] = "setdev_if"
    /\ Goto(t, IF stream # NoStream THEN "setdev_close" ELSE "setdev_assign")
    /\ UNCHANGED <<audioVars, ret, new, cat, seg, arg, exc, histVars, snap, lastSet, recAll, appAll>>

\* self.stream.close(): ends the stream's callbacks and releases the handle
SetDeviceClose(t) ==
    /\ pc[t] = "setdev_close"
    /\ IF stream = NoStream
       THEN /\ Raise(t)
            /\ UNCHANGED hw
       ELSE /\ cb[stream] = 0
            /\ hw' = [hw EXCEPT ![stream].st = "closed"]
            /\ Goto(t, "setdev_none")
            /\ UNCHANGED exc
    /\ UNCHANGED <<stream, device, is_recording, buffer, lock, cb,
                   ret, new, cat, seg, arg, histVars, snap, lastSet, recAll, appAll>>

\* Mutant: set_device also empties the buffer when it drops the stream.
SetDeviceNone_clear(t) ==
    /\ pc[t] = "setdev_none"
    /\ stream' = NoStream
    /\ hw' = Collect(hw, NoStream)
    /\ buffer' = <<>>
    /\ Goto(t, "setdev_assign")
    /\ UNCHANGED <<device, is_recording, lock, cb,
                   ret, new, cat, seg, arg, exc, histVars, snap, lastSet, recAll, appAll>>

\* self.stream = None
SetDeviceNone(t) ==
    /\ pc[t] = "setdev_none"
    /\ stream' = NoStream
    /\ hw' = Collect(hw, NoStream)
    /\ Goto(t, "setdev_assign")
    /\ UNCHANGED <<device, is_recording, buffer, lock, cb,
                   ret, new, cat, seg, arg, exc, histVars, snap, lastSet, recAll, appAll>>

\* self.device = device
SetDeviceAssign(t) ==
    /\ pc[t] = "setdev_assign"
    /\ device' = arg[t]
    /\ Return(t)
    /\ UNCHANGED <<stream, is_recording, buffer, lock, hw, cb,
                   ret, new, cat, seg, arg, exc, histVars, snap, lastSet, recAll, appAll>>

\* ------------------------------------------------------ AudioCapture.close
\* if self.stream:
CloseIf(t) ==
    /\ pc[t] = "close_if"
    /\ IF stream # NoStream THEN Goto(t, "close_close") ELSE Return(t)
    /\ UNCHANGED <<audioVars, ret, new, cat, seg, arg, exc, histVars, snap, lastSet, recAll, appAll>>

\* self.stream.close()
CloseClose(t) ==
    /\ pc[t] = "close_close"
    /\ IF stream = NoStream
       THEN /\ Raise(t)
            /\ UNCHANGED hw
       ELSE /\ cb[stream] = 0
            /\ hw' = [hw EXCEPT ![stream].st = "closed"]
            /\ Goto(t, "close_none")
            /\ UNCHANGED exc
    /\ UNCHANGED <<stream, device, is_recording, buffer, lock, cb,
                   ret, new, cat, seg, arg, histVars, snap, lastSet, recAll, appAll>>

\* Mutant: close() also forgets the selected device.
CloseNone_cleardev(t) ==
    /\ pc[t] = "close_none"
    /\ stream' = NoStream
    /\ device' = NoDevice
    /\ hw' = Collect(hw, NoStream)
    /\ Return(t)
    /\ UNCHANGED <<is_recording, buffer, lock, cb,
                   ret, new, cat, seg, arg, exc, histVars, snap, lastSet, recAll, appAll>>

\* self.stream = None
CloseNone(t) ==
    /\ pc[t] = "close_none"
    /\ stream' = NoStream
    /\ hw' = Collect(hw, NoStream)
    /\ Return(t)
    /\ UNCHANGED <<device, is_recording, buffer, lock, cb,
                   ret, new, cat, seg, arg, exc, histVars, snap, lastSet, recAll, appAll>>

\* The steps of each method of the capture session taken by thread t.
StartStep(t) ==
    \/ StartCheck(t) \/ StartOpen(t) \/ StartAssign(t) \/ StartFlag(t)
    \/ StartClear(t) \/ StartIf(t) \/ StartStream(t)

StopStep(t) ==
    \/ StopFlag(t) \/ StopIf(t) \/ StopStream(t)
    \/ StopLock(t) \/ StopConcat(t) \/ StopClear(t)

SetDeviceStep(t) ==
    \/ SetDeviceIf(t) \/ SetDeviceClose(t) \/ SetDeviceNone(t)
    \/ SetDeviceAssign(t)

CloseStep(t) == CloseIf(t) \/ CloseClose(t) \/ CloseNone(t)

AudioStep(t) == StartStep(t) \/ StopStep(t) \/ SetDeviceStep(t) \/ CloseStep(t)

\* The hardware layer's thread, for every open stream.
Callback(named) ==
    \E s \in Streams : CallbackCheck(s, named) \/ CallbackAppend(s)


\* ------------------------------------------------------- SpeechRecognizer
\* self.language: None (detect the language), or a language code.
NoLanguage == "auto"
Languages == {NoLanguage, "ko"}

\* A text is a sequence of characters; "" is the empty sequence.
Alphabet == {"a", " "}
EmptyText == <<>>

\* str.strip(): the text without its leading and trailing whitespace.
RECURSIVE LStrip(_)
LStrip(s) == IF s # <<>> /\ Head(s) = " " THEN LStrip(Tail(s)) ELSE s
RECURSIVE RStrip(_)
RStrip(s) ==
    IF s # <<>> /\ s[Len(s)] = " " THEN RStrip(SubSeq(s, 1, Len(s) - 1)) ELSE s
Strip(s) == RStrip(LStrip(s))

\* Mutant: blank texts are joined like the others (no filter(None, ...)).
RECURSIVE JoinNonEmpty_keepblank(_)
JoinNonEmpty_keepblank(ts) ==
    IF ts = <<>> THEN <<>>
    ELSE IF Len(ts) = 1 THEN Strip(Head(ts))
    ELSE Strip(Head(ts)) \o <<" ">> \o JoinNonEmpty_keepblank(Tail(ts))

\* " ".join(filter(None, texts)) over the stripped texts
RECURSIVE JoinNonEmpty(_)
JoinNonEmpty(ts) ==
    IF ts = <<>> THEN <<>>
    ELSE LET h == Strip(Head(ts))
             r == JoinNonEmpty(Tail(ts))
         IN  IF h = <<>> THEN r
             ELSE IF r = <<>> THEN h
             ELSE h \o <<" ">> \o r

\* SpeechRecognizer._join_segments
JoinSegments(ts) == Strip(JoinNonEmpty(ts))

\* audio_data is None, or a float32 array of n samples.  A sample's amplitude
\* is held in fixed point, amp standing for amp / AmpScale; every sample of
\* one array has the same amplitude, 0 when the amplitude is of no interest.
AmpScale == 32
NoAudio == [none |-> TRUE, n |-> 0, amp |-> 0]
Samples(n) == [none |-> FALSE, n |-> n, amp |-> 0]
Tone(n, amp) == [none |-> FALSE, n |-> n, amp |-> amp]

\* ndarray.astype(np.int16) of the value num / den: the fraction is dropped
\* (rounding toward zero) and the integer kept in 16 bits, two's complement.
Int16(v) == ((v + 32768) % 65536) - 32768
AsInt16(num, den) ==
    Int16(IF num >= 0 THEN num \div den ELSE -((-num) \div den))

\* (audio_data * 32767).astype(np.int16), for one sample.  With AmpScale a
\* power of two up to 2^9 the float32 product is exact.
ToPcm(amp) == AsInt16(amp * 32767, AmpScale)

\* Mutant: the floor is exclusive (> in place of >=).
HasSufficientAudio_strict(a, sample_rate) == ~a.none /\ 2 * a.n > sample_rate

\* SpeechRecognizer._has_sufficient_audio:
\* audio_data is not None and len(audio_data) >= sample_rate * 0.5
HasSufficientAudio(a, sample_rate) == ~a.none /\ 2 * a.n >= sample_rate

\* What a transcribe() call did: whether it invoked the engine, whether it
\* created its temporary file, the error it met, the segment texts the
\* engine returned to it, and the 16-bit value it wrote for each sample.
NotUsed == [engine |-> FALSE, file |-> FALSE, fault |-> "none",
            segments |-> <<>>, pcm |-> 0]

\* Mutant: transcribe() does not test readiness.
TrReady_skip(t) ==
    /\ pc[t] = "tr_ready"
    /\ Goto(t, "tr_len")
    /\ UNCHANGED <<audioAll, recVars, ret, exc, audio, text, used, snap, lastSet, appAll>>

\* if not self.is_ready(): return ""
TrReady(t) ==
    /\ pc[t] = "tr_ready"
    /\ IF ~loaded
       THEN /\ text' = [text EXCEPT ![t] = EmptyText]
            /\ Return(t)
       ELSE /\ Goto(t, "tr_len")
            /\ UNCHANGED text
    /\ UNCHANGED <<audioAll, recVars, ret, exc, audio, used, snap, lastSet, appAll>>

\* if not self._has_sufficient_audio(audio_data, sample_rate): return ""
TrLength(t) ==
    /\ pc[t] = "tr_len"
    /\ IF ~HasSufficientAudio(audio[t], DEFAULT_SAMPLE_RATE)
       THEN /\ text' = [text EXCEPT ![t] = EmptyText]
            /\ Return(t)
       ELSE /\ Goto(t, "tr_write")
            /\ UNCHANGED text
    /\ UNCHANGED <<audioAll, recVars, ret, exc, audio, used, snap, lastSet, appAll>>

\* temp_path = self._write_temp_wav(audio_data, sample_rate), before the try:
\* mkstemp may fail, and so may writing the frames to the file it created;
\* either error leaves transcribe(), the second with the file in place
TrWriteTempWav(t) ==
    /\ pc[t] = "tr_write"
    /\ \E outcome \in {"ok", "mkstemp", "write"} :
        /\ used' = [used EXCEPT ![t].file = (outcome # "mkstemp"),
                                ![t].fault = IF outcome = "ok" THEN "none"
                                                               ELSE outcome,
                                ![t].pcm = IF outcome = "ok"
                                           THEN ToPcm(audio[t].amp) ELSE 0]
        /\ IF outcome = "ok"
           THEN /\ files' = files \cup {t}
                /\ Goto(t, "tr_engine")
                /\ UNCHANGED <<leaked, exc>>
           ELSE /\ leaked' = IF outcome = "write" THEN 1 ELSE leaked
                /\ Raise(t)
                /\ UNCHANGED files
    /\ UNCHANGED <<audioAll, model, loaded, loading, cbOk, cbFail, nloads, language,
                   ret, audio, text, snap, lastSet, appAll>>

\* try: segments, _info = self.model.transcribe(temp_path, ...)
\*      return self._join_segments(segments)
\* except Exception: return ""
\* The engine returns its segments lazily; it can fail when called and while
\* the segments are read.
TrEngine(t, outputs) ==
    /\ pc[t] = "tr_engine"
    /\ \E outcome \in {"ok", "engine", "iterate"} :
       \E segments \in outputs :
        /\ outcome # "ok" => segments = <<>>
        /\ used' = [used EXCEPT ![t].engine = TRUE,
                                ![t].fault = IF outcome = "ok" THEN "none"
                                                               ELSE outcome,
                                ![t].segments = segments]
        /\ text' = [text EXCEPT ![t] = IF outcome = "ok"
                                         THEN JoinSegments(segments)
                                         ELSE EmptyText]
    /\ Goto(t, "tr_delete")
    /\ UNCHANGED <<audioAll, recVars, ret, exc, audio, snap, lastSet, appAll>>

\* finally: self._safe_delete(temp_path)
TrDelete(t) ==
    /\ pc[t] = "tr_delete"
    /\ files' = files \ {t}
    /\ Return(t)
    /\ UNCHANGED <<audioAll, model, loaded, loading, leaked, cbOk, cbFail,
                   nloads, language, ret, exc, audio, text, used, snap, lastSet, appAll>>

\* Every step of transcribe() taken by thread t.
TranscribeStep(t, outputs) ==
    \/ TrReady(t) \/ TrLength(t) \/ TrWriteTempWav(t)
    \/ TrEngine(t, outputs) \/ TrDelete(t)

\* --------------------------------------- SpeechRecognizer.load_model._load
\* self._loading = True
LoadBegin ==
    /\ pc[Load] = "load_begin"
    /\ loading' = TRUE
    /\ Goto(Load, "load_construct")
    /\ UNCHANGED <<audioAll, model, loaded, files, leaked, cbOk, cbFail,
                   nloads, language, ret, exc, audio, text, used, snap, lastSet, appAll>>

\* self.model = WhisperModel(...): the import or the constructor may raise
LoadConstruct ==
    /\ pc[Load] = "load_construct"
    /\ \E ok \in BOOLEAN :
        IF ok THEN model' = TRUE /\ Goto(Load, "load_set")
              ELSE UNCHANGED model /\ Goto(Load, "load_except")
    /\ UNCHANGED <<audioAll, loaded, loading, files, leaked, cbOk, cbFail,
                   nloads, language, ret, exc, audio, text, used, snap, lastSet, appAll>>

\* self._loaded.set()
LoadSet ==
    /\ pc[Load] = "load_set"
    /\ loaded' = TRUE
    /\ Goto(Load, "load_cb_ok")
    /\ UNCHANGED <<audioAll, model, loading, files, leaked, cbOk, cbFail,
                   nloads, language, ret, exc, audio, text, used, snap, lastSet, appAll>>

\* A callback scheduled on the control thread with after(0, ...).
Event(kind) == [kind |-> kind, src |-> "none", text |-> <<>>]
TextEvent(src, t) == [kind |-> "text", src |-> src, text |-> t]

\* if callback: callback(True, None), inside the try: a callback that raises
\* is handled by the except clause below.  The application's callback
\* (on_model_loaded) schedules the status update and the enabling of the
\* toggle switch, which fails once the window is destroyed; a client's
\* callback may raise or not.
LoadCallbackOk(app) ==
    /\ pc[Load] = "load_cb_ok"
    /\ cbOk' = Bump(cbOk)
    /\ \E raises \in BOOLEAN :
        /\ app => (raises <=> closed)
        /\ afterq' = IF app /\ ~raises
                     THEN afterq \o <<Event("status_ready"), Event("enable_toggle")>>
                     ELSE afterq
        /\ Goto(Load, IF raises THEN "load_except" ELSE "load_finally")
    /\ UNCHANGED <<audioAll, model, loaded, loading, files, leaked, cbFail,
                   nloads, language, ret, exc, audio, text, used, snap, lastSet,
                   appFlags, status, appHist, pttHist, contHist>>

\* Mutant: a load that fails takes readiness back.
LoadExcept_reset(app) ==
    /\ pc[Load] = "load_except"
    /\ cbFail' = Bump(cbFail)
    /\ loaded' = FALSE
    /\ exc' = [exc EXCEPT ![Load] = FALSE]
    /\ Goto(Load, "load_finally")
    /\ UNCHANGED <<audioAll, model, loading, files, leaked, cbOk, nloads,
                   language, ret, audio, text, used, snap, lastSet, appAll>>

\* except Exception as exc: if callback: callback(False, str(exc)); an error
\* raised here leaves the thread, after the finally clause
LoadExcept(app) ==
    /\ pc[Load] = "load_except"
    /\ cbFail' = Bump(cbFail)
    /\ \E raises \in BOOLEAN :
        /\ app => (raises <=> closed)
        /\ afterq' = IF app /\ ~raises
                     THEN Append(afterq, Event("status_failed"))
                     ELSE afterq
        /\ exc' = [exc EXCEPT ![Load] = raises]
        /\ Goto(Load, "load_finally")
    /\ UNCHANGED <<audioAll, model, loaded, loading, files, leaked, cbOk,
                   nloads, language, ret, audio, text, used, snap, lastSet,
                   appFlags, status, appHist, pttHist, contHist>>

\* finally: self._loading = False
LoadFinally ==
    /\ pc[Load] = "load_finally"
    /\ loading' = FALSE
    /\ Goto(Load, IF exc[Load] THEN "dead" ELSE "done")
    /\ UNCHANGED <<audioAll, model, loaded, files, leaked, cbOk, cbFail,
                   nloads, language, ret, exc, audio, text, used, snap, lastSet, appAll>>

LoadStep(app) ==
    \/ LoadBegin \/ LoadConstruct \/ LoadSet
    \/ LoadCallbackOk(app) \/ LoadExcept(app) \/ LoadFinally

\* ------------------------------------------------------------ construction
\* AudioCapture.__init__
InitAudio ==
    /\ stream = NoStream
    /\ device = NoDevice
    /\ is_recording = FALSE
    /\ buffer = <<>>
    /\ lock = NoThread
    /\ hw = [s \in Streams |-> FreeHw]
    /\ cb = [s \in Streams |-> 0]

NoSnap == [op |-> "none", prev |-> "none", dev |-> NoDevice, rec |-> FALSE, stream |-> NoStream,
           device |-> NoDevice, buffer |-> <<>>, since |-> <<>>, busy |-> FALSE]

\* SpeechRecognizer.__init__
InitRecognizer ==
    /\ model = FALSE
    /\ loaded = FALSE
    /\ loading = FALSE
    /\ files = {}
    /\ leaked = 0
    /\ audio = [t \in Threads |-> NoAudio]
    /\ text = [t \in Threads |-> EmptyText]
    /\ used = [t \in Threads |-> NotUsed]
    /\ cbOk = 0
    /\ cbFail = 0
    /\ nloads = 0
    /\ language = NoLanguage

InitThreads ==
    /\ pc = [t \in Threads |-> IF t = Ctl THEN "idle" ELSE "unborn"]
    /\ ret = [t \in Threads |-> "idle"]
    /\ new = [t \in Threads |-> NoStream]
    /\ cat = [t \in Threads |-> <<>>]
    /\ seg = [t \in Threads |-> NoneSeg]
    /\ arg = [t \in Threads |-> NoDevice]
    /\ exc = [t \in Threads |-> FALSE]

\* No application around the component: nothing is scheduled or listening.
InitAppIdle ==
    /\ is_toggle_active = FALSE
    /\ is_ptt_active = FALSE
    /\ should_stop = FALSE
    /\ toggle_var = FALSE
    /\ toggle_enabled = FALSE
    /\ afterq = <<>>
    /\ status = "loading"
    /\ listening = FALSE
    /\ closed = FALSE
    /\ ntoggles = 0
    /\ nkeys = 0
    /\ napplies = 0
    /\ pttStarts = 0
    /\ pttStops = 0
    /\ calls = <<>>
    /\ cancelled = {}

InitHist ==
    /\ sinceStart = <<>>
    /\ fresh = FALSE
    /\ handed = [c \in Chunks |-> 0]
    /\ snap = NoSnap
    /\ stops = 0
    /\ drainedFresh = FALSE
    /\ lastSet = [set |-> FALSE, dev |-> NoDevice]

\* --------------------------------------------- the session used by a client
\* One client thread issues start(), stop(), set_device(d) and close() in any
\* order, one call at a time, while the hardware callback runs beside it.
Entry(op) ==
    CASE op = "start" -> "start_check"
      [] op = "stop" -> "stop_flag"
      [] op = "set_device" -> "setdev_if"
      [] op = "close" -> "close_if"

ClientCall ==
    /\ pc[Ctl] = "idle"
    /\ \E op \in {"start", "stop", "set_device", "close"} :
       \E d \in Devices :
        /\ op # "set_device" => d = NoDevice
        /\ pc' = [pc EXCEPT ![Ctl] = Entry(op)]
        /\ ret' = [ret EXCEPT ![Ctl] = "idle"]
        /\ arg' = [arg EXCEPT ![Ctl] = d]
        /\ exc' = [exc EXCEPT ![Ctl] = FALSE]
        /\ lastSet' = IF op = "set_device" THEN [set |-> TRUE, dev |-> d]
                                              ELSE lastSet
        /\ snap' = [op |-> op, prev |-> snap.op, dev |-> d, rec |-> is_recording,
                    stream |-> stream, device |-> device, buffer |-> buffer,
                    since |-> sinceStart,
                    busy |-> \E s \in Streams : cb[s] # 0]
    /\ UNCHANGED <<audioVars, new, cat, seg, histVars, recAll, appAll>>

InitSession ==
    InitAudio /\ InitRecognizer /\ InitThreads /\ InitHist /\ InitAppIdle

NextSession == ClientCall \/ AudioStep(Ctl) \/ Callback(TRUE)

SpecSession == InitSession /\ [][NextSession]_vars

\* ------------------------------------------ the session used by two threads
\* The control thread and the continuous-loop thread both hold the session:
\* each issues start() and stop() in any order, one call at a time, and picks
\* up the segment of its last stop() before its next call.
Clients == {Ctl, Loop(1)}

SharedCall(t) ==
    /\ pc[t] = "idle"
    /\ \E op \in {"start", "stop"} :
        pc' = [pc EXCEPT ![t] = Entry(op)]
    /\ ret' = [ret EXCEPT ![t] = "idle"]
    /\ exc' = [exc EXCEPT ![t] = FALSE]
    /\ seg' = [seg EXCEPT ![t] = NoneSeg]
    /\ UNCHANGED <<audioVars, new, cat, arg, histVars, recAll, snap, lastSet,
                   appAll>>

InitShared ==
    /\ InitAudio /\ InitRecognizer /\ InitHist /\ InitAppIdle
    /\ pc = [t \in Threads |-> IF t \in Clients THEN "idle" ELSE "unborn"]
    /\ ret = [t \in Threads |-> "idle"]
    /\ new = [t \in Threads |-> NoStream]
    /\ cat = [t \in Threads |-> <<>>]
    /\ seg = [t \in Threads |-> NoneSeg]
    /\ arg = [t \in Threads |-> NoDevice]
    /\ exc = [t \in Threads |-> FALSE]

NextShared ==
    \/ \E t \in Clients : SharedCall(t) \/ StartStep(t) \/ StopStep(t)
    \/ Callback(TRUE)

SpecShared == InitShared /\ [][NextShared]_vars

\* ------------------------------------------- the adapter used by a client
\* One client thread issues load_model() and transcribe(audio_data) and sets
\* the language, in any order; the load runs in its own thread beside the
\* client.
MaxLoads == 2
\* The segments the engine may return: up to MaxSegments texts of up to
\* MaxTextLen characters.
MaxSegments == 3
MaxTextLen == 2

RECURSIVE TextsOfLen(_)
TextsOfLen(n) ==
    IF n = 0 THEN {<<>>}
    ELSE {<<c>> \o w : c \in Alphabet, w \in TextsOfLen(n - 1)}
Texts == UNION {TextsOfLen(n) : n \in 0..MaxTextLen}
EngineOutputs == UNION {[1..n -> Texts] : n \in 0..MaxSegments}

\* The audio_data arguments tried: None, and arrays around the 0.5 s floor.
AudioArgs ==
    {NoAudio} \cup {Samples(n) : n \in {0, 3 * BlockSize, 5 * BlockSize - 1,
                                        5 * BlockSize, 5 * BlockSize + 1,
                                        10 * BlockSize}}

ClientTranscribe ==
    /\ pc[Ctl] = "idle"
    /\ \E a \in AudioArgs :
        /\ audio' = [audio EXCEPT ![Ctl] = a]
        /\ snap' = [NoSnap EXCEPT !.op = "transcribe", !.rec = loaded]
    /\ used' = [used EXCEPT ![Ctl] = NotUsed]
    /\ text' = [text EXCEPT ![Ctl] = EmptyText]
    /\ exc' = [exc EXCEPT ![Ctl] = FALSE]
    /\ pc' = [pc EXCEPT ![Ctl] = "tr_ready"]
    /\ ret' = [ret EXCEPT ![Ctl] = "idle"]
    /\ UNCHANGED <<audioAll, recVars, lastSet, appAll>>

\* threading.Thread(target=_load, daemon=True).start()
ClientLoadModel ==
    /\ pc[Ctl] = "idle"
    /\ pc[Load] \in {"unborn", "done", "dead"}
    /\ nloads < MaxLoads
    /\ nloads' = nloads + 1
    /\ pc' = [pc EXCEPT ![Load] = "load_begin"]
    /\ exc' = [exc EXCEPT ![Load] = FALSE]
    /\ snap' = [NoSnap EXCEPT !.op = "load_model"]
    /\ UNCHANGED <<audioAll, model, loaded, loading, files, leaked, cbOk,
                   cbFail, language, ret, audio, text, used, lastSet, appAll>>

\* recognizer.language = code, as the language menu's handler does
ClientSetLanguage ==
    /\ pc[Ctl] = "idle"
    /\ \E code \in Languages \ {language} : language' = code
    /\ UNCHANGED <<audioAll, model, loaded, loading, files, leaked, cbOk,
                   cbFail, nloads, pc, ret, exc, audio, text, used, snap,
                   lastSet, appAll>>

InitRec ==
    InitAudio /\ InitRecognizer /\ InitThreads /\ InitHist /\ InitAppIdle

NextRec ==
    \/ ClientTranscribe
    \/ ClientLoadModel
    \/ ClientSetLanguage
    \/ TranscribeStep(Ctl, EngineOutputs)
    \/ LoadStep(FALSE)

SpecRec == InitRec /\ [][NextRec]_vars

\* ------------------------------------- the samples written for the engine
\* One client thread loads the model and hands transcribe() arrays of one
\* second of samples, of every amplitude k / AmpScale in [-1, 1].
ToneArgs == {Tone(DEFAULT_SAMPLE_RATE, k) : k \in -AmpScale..AmpScale}

ClientTranscribeTone ==
    /\ pc[Ctl] = "idle"
    /\ \E a \in ToneArgs :
        /\ audio' = [audio EXCEPT ![Ctl] = a]
        /\ snap' = [NoSnap EXCEPT !.op = "transcribe", !.rec = loaded]
    /\ used' = [used EXCEPT ![Ctl] = NotUsed]
    /\ text' = [text EXCEPT ![Ctl] = EmptyText]
    /\ exc' = [exc EXCEPT ![Ctl] = FALSE]
    /\ pc' = [pc EXCEPT ![Ctl] = "tr_ready"]
    /\ ret' = [ret EXCEPT ![Ctl] = "idle"]
    /\ UNCHANGED <<audioAll, recVars, lastSet, appAll>>

NextWav ==
    \/ ClientTranscribeTone
    \/ ClientLoadModel
    \/ TranscribeStep(Ctl, {<<>>})
    \/ LoadStep(FALSE)

SpecWav == InitRec /\ [][NextWav]_vars

\* ------------------------------------------------------------------ ASRApp
\* A thread slot that no running thread occupies; the lowest is taken.
Spare(ts) == {t \in ts : pc[t] \in {"unborn", "done", "dead"}}
\* The threads of ts that are running.
Running(ts) == ts \ Spare(ts)
Lowest(ts) == CHOOSE t \in ts : \A u \in ts : t[2] <= u[2]

\* Thread t calls a method: it goes to the method's first statement and
\* comes back to cont.
Call(t, entry, cont) ==
    /\ pc' = [pc EXCEPT ![t] = entry]
    /\ ret' = [ret EXCEPT ![t] = cont]
    /\ exc' = [exc EXCEPT ![t] = FALSE]

\* The segments the engine returns inside the application: none, or one text.
AppOutputs == {<<>>, << <<"a">> >>}

\* --- keyboard listener thread
\* Mutant: on_press does not ask whether the recognizer is ready.
PressCheck_noready(b) ==
    /\ pc[Kbd] = "idle"
    /\ listening
    /\ UserActs < b
    /\ nkeys' = nkeys + 1
    /\ Goto(Kbd, IF ~is_ptt_active /\ ~is_toggle_active
                 THEN "press_set" ELSE "idle")
    /\ UNCHANGED <<audioAll, recAll, snap, lastSet, ret, exc, appFlags,
                   afterq, status, ntoggles, napplies, pttHist, contHist>>

\* Mutant: on_press does not ask whether the key is already down.
PressCheck_repeat(b) ==
    /\ pc[Kbd] = "idle"
    /\ listening
    /\ UserActs < b
    /\ nkeys' = nkeys + 1
    /\ Goto(Kbd, IF loaded /\ ~is_toggle_active THEN "press_set" ELSE "idle")
    /\ UNCHANGED <<audioAll, recAll, snap, lastSet, ret, exc, appFlags,
                   afterq, status, ntoggles, napplies, pttHist, contHist>>

\* on_press: if key == PTT_KEY and not self.is_ptt_active:
\*     if self.recognizer.is_ready() and not self.is_toggle_active:
PressCheck(b) ==
    /\ pc[Kbd] = "idle"
    /\ listening
    /\ UserActs < b
    /\ nkeys' = nkeys + 1
    /\ Goto(Kbd, IF ~is_ptt_active /\ loaded /\ ~is_toggle_active
                 THEN "press_set" ELSE "idle")
    /\ UNCHANGED <<audioAll, recAll, snap, lastSet, ret, exc, appFlags,
                   afterq, status, ntoggles, napplies, pttHist, contHist>>

\* self.is_ptt_active = True; self.after(0, self._start_ptt_recording)
PressSet ==
    /\ pc[Kbd] = "press_set"
    /\ is_ptt_active' = TRUE
    /\ afterq' = Append(afterq, Event("start_ptt"))
    /\ Goto(Kbd, "idle")
    /\ UNCHANGED <<audioAll, recAll, snap, lastSet, ret, exc,
                   is_toggle_active, should_stop, toggle_var, toggle_enabled,
                   listening, closed, status, appHist, pttHist, contHist>>

\* on_release: if key == PTT_KEY and self.is_ptt_active:
\*     self.is_ptt_active = False; self.after(0, self._stop_ptt_recording)
Release(b) ==
    /\ pc[Kbd] = "idle"
    /\ listening
    /\ UserActs < b
    /\ nkeys' = nkeys + 1
    /\ IF is_ptt_active
       THEN /\ is_ptt_active' = FALSE
            /\ afterq' = Append(afterq, Event("stop_ptt"))
       ELSE UNCHANGED <<is_ptt_active, afterq>>
    /\ UNCHANGED <<audioAll, recAll, snap, lastSet, pc, ret, exc,
                   is_toggle_active, should_stop, toggle_var, toggle_enabled,
                   listening, closed, status, ntoggles, napplies, pttHist, contHist>>

\* --- control thread: the Tk main loop takes the next scheduled callback
\* _start_ptt_recording: if not self.recognizer.is_ready(): return
\*     self._update_status(...); self.audio_capture.start()
RunStartPtt ==
    /\ pc[Ctl] = "idle"
    /\ ~closed
    /\ afterq # <<>>
    /\ Head(afterq).kind = "start_ptt"
    /\ afterq' = Tail(afterq)
    /\ IF ~loaded
       THEN UNCHANGED <<pc, ret, exc, status, pttStarts>>
       ELSE /\ status' = "recording"
            /\ pttStarts' = pttStarts + 1
            /\ Call(Ctl, "start_check", "idle")
    /\ UNCHANGED <<audioAll, recAll, snap, lastSet, appFlags, appHist, pttStops, contHist>>

\* _stop_ptt_recording: self._update_status(...)
\*     audio_data = self.audio_capture.stop()
RunStopPtt ==
    /\ pc[Ctl] = "idle"
    /\ ~closed
    /\ afterq # <<>>
    /\ Head(afterq).kind = "stop_ptt"
    /\ afterq' = Tail(afterq)
    /\ status' = "recognizing"
    /\ pttStops' = pttStops + 1
    /\ Call(Ctl, "stop_flag", "ptt_stopped")
    /\ UNCHANGED <<audioAll, recAll, snap, lastSet, appFlags, appHist, pttStarts, contHist>>

\* Mutant: the handler transcribes the segment itself, on the control thread.
PttStopped_inline ==
    /\ pc[Ctl] = "ptt_stopped"
    /\ seg' = [seg EXCEPT ![Ctl] = NoneSeg]
    /\ IF ~seg[Ctl].some \/ SampleCount(seg[Ctl]) = 0
       THEN /\ status' = "ready"
            /\ Goto(Ctl, "idle")
            /\ UNCHANGED <<ret, audio, used, text>>
       ELSE /\ pc' = [pc EXCEPT ![Ctl] = "tr_ready"]
            /\ ret' = [ret EXCEPT ![Ctl] = "worker_text"]
            /\ audio' = [audio EXCEPT ![Ctl] = Samples(SampleCount(seg[Ctl]))]
            /\ used' = [used EXCEPT ![Ctl] = NotUsed]
            /\ text' = [text EXCEPT ![Ctl] = EmptyText]
            /\ UNCHANGED status
    /\ UNCHANGED <<audioVars, new, cat, arg, histVars, recVars, snap, lastSet,
                   exc, appFlags, afterq, appHist, pttHist, contHist>>

\* if audio_data is None or len(audio_data) == 0:
\*     self._update_status("ready"); return
\* threading.Thread(target=self._transcribe_and_handle, ...).start()
PttStopped ==
    /\ pc[Ctl] = "ptt_stopped"
    /\ seg' = [seg EXCEPT ![Ctl] = NoneSeg]
    /\ IF ~seg[Ctl].some \/ SampleCount(seg[Ctl]) = 0
       THEN /\ status' = "ready"
            /\ Goto(Ctl, "idle")
            /\ UNCHANGED <<ret, audio, used, text>>
       ELSE /\ Spare(Workers) # {}
            /\ LET w == Lowest(Spare(Workers)) IN
                /\ pc' = [pc EXCEPT ![Ctl] = "idle", ![w] = "tr_ready"]
                /\ ret' = [ret EXCEPT ![w] = "worker_text"]
                /\ audio' = [audio EXCEPT ![w] = Samples(SampleCount(seg[Ctl]))]
                /\ used' = [used EXCEPT ![w] = NotUsed]
                /\ text' = [text EXCEPT ![w] = EmptyText]
            /\ UNCHANGED status
    /\ UNCHANGED <<audioVars, new, cat, arg, histVars, recVars, snap, lastSet,
                   exc, appFlags, afterq, appHist, pttHist, contHist>>

\* _transcribe_and_handle, after transcribe() returned:
\*     if text: self.after(0, lambda: self._on_text_recognized(text))
\*     self.after(0, lambda: self._update_status("ready"))
\* after() fails once the window is destroyed.
WorkerText(w) ==
    /\ pc[w] = "worker_text"
    /\ IF closed
       THEN /\ Raise(w)
            /\ UNCHANGED afterq
       ELSE /\ afterq' = (IF text[w] # EmptyText
                          THEN Append(afterq, TextEvent("ptt", text[w]))
                          ELSE afterq) \o <<Event("status_ready")>>
            /\ Goto(w, "done")
            /\ UNCHANGED exc
    /\ audio' = [audio EXCEPT ![w] = NoAudio]
    /\ text' = [text EXCEPT ![w] = EmptyText]
    /\ used' = [used EXCEPT ![w] = NotUsed]
    /\ UNCHANGED <<audioAll, recVars, snap, lastSet, ret, appFlags,
                   status, appHist, pttHist, contHist>>

\* _on_text_recognized: self._append_text(...); type_text(text)
RunTextRecognized ==
    /\ pc[Ctl] = "idle"
    /\ ~closed
    /\ afterq # <<>>
    /\ Head(afterq).kind = "text"
    /\ afterq' = Tail(afterq)
    /\ UNCHANGED <<audioAll, recAll, snap, lastSet, pc, ret, exc, appFlags,
                   status, appHist, pttHist, contHist>>

\* the scheduled status updates, and toggle_switch.configure(state="normal")
RunStatus ==
    /\ pc[Ctl] = "idle"
    /\ ~closed
    /\ afterq # <<>>
    /\ Head(afterq).kind \in {"status_ready", "status_failed", "enable_toggle"}
    /\ afterq' = Tail(afterq)
    /\ status' = CASE Head(afterq).kind = "status_ready" -> "ready"
                   [] Head(afterq).kind = "status_failed" -> "failed"
                   [] OTHER -> status
    /\ toggle_enabled' = (toggle_enabled \/ Head(afterq).kind = "enable_toggle")
    /\ UNCHANGED <<audioAll, recAll, snap, lastSet, pc, ret, exc,
                   is_toggle_active, is_ptt_active, should_stop, toggle_var,
                   listening, closed, appHist, pttHist, contHist>>

\* --- control thread: the user's actions; b is the number of actions the
\* user takes at most
\* The switch is clicked while it is disabled, as it is from construction
\* (state="disabled") until the model has loaded: the widget ignores the
\* click and runs no handler.
ToggleDisabled(b) ==
    /\ pc[Ctl] = "idle"
    /\ ~closed
    /\ ~toggle_enabled
    /\ UserActs < b
    /\ ntoggles' = ntoggles + 1
    /\ UNCHANGED <<audioAll, recAll, snap, lastSet, pc, ret, exc, appFlags,
                   afterq, status, nkeys, napplies, pttHist, contHist>>

\* Mutant: the switch is enabled from the start and its handler does not ask
\* whether the recognizer is ready.
ToggleOn_noready(b) ==
    /\ pc[Ctl] = "idle"
    /\ ~closed
    /\ ~toggle_var
    /\ UserActs < b
    /\ ntoggles' = ntoggles + 1
    /\ Spare(Loops) # {}
    /\ toggle_var' = TRUE
    /\ is_toggle_active' = TRUE
    /\ should_stop' = FALSE
    /\ status' = "continuous"
    /\ Call(Lowest(Spare(Loops)), "start_check", "loop_while")
    /\ UNCHANGED <<audioAll, recAll, snap, lastSet, is_ptt_active,
                   toggle_enabled, listening, closed, afterq, nkeys, napplies,
                   pttHist, contHist>>

\* The switch is clicked on: _on_toggle_changed, _start_continuous_recognition
\*     if not self.recognizer.is_ready(): self.toggle_var.set(False); return
\*     self.is_toggle_active = True; self.should_stop.clear()
\*     self.recognition_thread = threading.Thread(...); .start()
ToggleOn(b) ==
    /\ pc[Ctl] = "idle"
    /\ ~closed
    /\ toggle_enabled
    /\ ~toggle_var
    /\ UserActs < b
    /\ ntoggles' = ntoggles + 1
    /\ IF ~loaded
       THEN /\ toggle_var' = FALSE
            /\ UNCHANGED <<pc, ret, exc, is_toggle_active, should_stop, status,
                           contHist>>
       ELSE /\ Spare(Loops) # {}
            /\ toggle_var' = TRUE
            /\ is_toggle_active' = TRUE
            /\ should_stop' = FALSE
            /\ status' = "continuous"
            /\ Call(Lowest(Spare(Loops)), "start_check", "loop_while")
            /\ calls' = <<"loop.start">>
            /\ cancelled' = cancelled \ {Lowest(Spare(Loops))}
    /\ UNCHANGED <<audioAll, recAll, snap, lastSet, is_ptt_active,
                   toggle_enabled, listening, closed, afterq, nkeys, napplies,
                   pttHist>>

\* The switch is clicked off: _stop_continuous_recognition
\*     self.is_toggle_active = False; self.should_stop.set()
\*     self.audio_capture.stop()
ToggleOff(b) ==
    /\ pc[Ctl] = "idle"
    /\ ~closed
    /\ toggle_enabled
    /\ toggle_var
    /\ UserActs < b
    /\ ntoggles' = ntoggles + 1
    /\ toggle_var' = FALSE
    /\ is_toggle_active' = FALSE
    /\ should_stop' = TRUE
    /\ Call(Ctl, "stop_flag", "cont_stopped")
    /\ calls' = Log(calls, "ctl.stop")
    /\ cancelled' = cancelled \cup Running(Loops)
    /\ UNCHANGED <<audioAll, recAll, snap, lastSet, is_ptt_active,
                   toggle_enabled, listening, closed, afterq, status,
                   nkeys, napplies, pttHist>>

\* self._update_status("ready"), after stop() returned
ContStopped ==
    /\ pc[Ctl] = "cont_stopped"
    /\ seg' = [seg EXCEPT ![Ctl] = NoneSeg]
    /\ status' = "ready"
    /\ Goto(Ctl, "idle")
    /\ UNCHANGED <<audioVars, new, cat, arg, histVars, recAll, snap, lastSet,
                   ret, exc, appFlags, afterq, appHist, pttHist, contHist>>

\* SettingsWindow._apply_settings: self.audio_capture.set_device(device_idx)
ApplySettings(b) ==
    /\ pc[Ctl] = "idle"
    /\ ~closed
    /\ UserActs < b
    /\ napplies' = napplies + 1
    /\ \E d \in Devices :
        /\ arg' = [arg EXCEPT ![Ctl] = d]
        /\ lastSet' = [set |-> TRUE, dev |-> d]
    /\ Call(Ctl, "setdev_if", "idle")
    /\ UNCHANGED <<audioVars, new, cat, seg, histVars, recAll, snap, appFlags,
                   afterq, status, ntoggles, nkeys, pttHist, contHist>>

\* _on_close: self.should_stop.set(); self.is_toggle_active = False
\*     self.is_ptt_active = False; self.ptt_listener.stop()
\*     self.audio_capture.close()
CloseWindow(b) ==
    /\ pc[Ctl] = "idle"
    /\ ~closed
    /\ UserActs < b
    /\ should_stop' = TRUE
    /\ is_toggle_active' = FALSE
    /\ is_ptt_active' = FALSE
    /\ listening' = FALSE
    /\ Call(Ctl, "close_if", "destroy")
    /\ cancelled' = cancelled \cup Running(Loops)
    /\ UNCHANGED <<audioAll, recAll, snap, lastSet, toggle_var, toggle_enabled,
                   closed, afterq, status, appHist, pttHist, calls>>

\* self.destroy(): the main loop ends
Destroy ==
    /\ pc[Ctl] = "destroy"
    /\ closed' = TRUE
    /\ Goto(Ctl, "closed")
    /\ UNCHANGED <<audioAll, recAll, snap, lastSet, ret, exc,
                   is_toggle_active, is_ptt_active, should_stop, toggle_var,
                   toggle_enabled, listening, afterq, status, appHist, pttHist, contHist>>

\* --- _continuous_recognition_loop, after self.audio_capture.start()
\* while not self.should_stop.is_set():
LoopWhile(l) ==
    /\ pc[l] = "loop_while"
    /\ Goto(l, IF should_stop THEN "done" ELSE "loop_sleep")
    /\ UNCHANGED <<audioAll, recAll, snap, lastSet, ret, exc, appAll>>

\* time.sleep(2.0); if self.should_stop.is_set(): break
\* audio_data = self.audio_capture.stop()
LoopWake(l) ==
    /\ pc[l] = "loop_sleep"
    /\ IF should_stop
       THEN Goto(l, "done") /\ UNCHANGED <<ret, exc, calls>>
       ELSE Call(l, "stop_flag", "loop_restart")
                /\ calls' = Log(calls, "loop.stop")
    /\ UNCHANGED <<audioAll, recAll, snap, lastSet, appFlags, afterq, status,
                   appHist, pttHist, cancelled>>

\* if not self.should_stop.is_set(): self.audio_capture.start()
LoopRestart(l) ==
    /\ pc[l] = "loop_restart"
    /\ IF should_stop
       THEN Goto(l, "loop_submit") /\ UNCHANGED <<ret, exc, calls>>
       ELSE Call(l, "start_check", "loop_submit")
                /\ calls' = Log(calls, "loop.start")
    /\ UNCHANGED <<audioAll, recAll, snap, lastSet, appFlags, afterq, status,
                   appHist, pttHist, cancelled>>

\* if audio_data is not None and len(audio_data) > 0:
\*     text = self.recognizer.transcribe(audio_data)
LoopSubmit(l) ==
    /\ pc[l] = "loop_submit"
    /\ seg' = [seg EXCEPT ![l] = NoneSeg]
    /\ IF seg[l].some /\ SampleCount(seg[l]) > 0
       THEN /\ Call(l, "tr_ready", "loop_text")
            /\ audio' = [audio EXCEPT ![l] = Samples(SampleCount(seg[l]))]
            /\ used' = [used EXCEPT ![l] = NotUsed]
            /\ text' = [text EXCEPT ![l] = EmptyText]
       ELSE /\ Goto(l, "loop_while")
            /\ UNCHANGED <<ret, exc, audio, used, text>>
    /\ UNCHANGED <<audioVars, new, cat, arg, histVars, recVars, snap, lastSet,
                   appAll>>

\* if text: self.after(0, lambda t=text: self._on_text_recognized(t))
LoopText(l) ==
    /\ pc[l] = "loop_text"
    /\ IF text[l] = EmptyText
       THEN /\ Goto(l, "loop_while")
            /\ UNCHANGED <<afterq, exc>>
       ELSE IF closed
       THEN /\ Raise(l)
            /\ UNCHANGED afterq
       ELSE /\ Len(afterq) < MaxPending
            /\ afterq' = Append(afterq, TextEvent("loop", text[l]))
            /\ Goto(l, "loop_while")
            /\ UNCHANGED exc
    /\ audio' = [audio EXCEPT ![l] = NoAudio]
    /\ text' = [text EXCEPT ![l] = EmptyText]
    /\ used' = [used EXCEPT ![l] = NotUsed]
    /\ UNCHANGED <<audioAll, recVars, snap, lastSet, ret, appFlags,
                   status, appHist, pttHist, contHist>>

LoopStep(l) ==
    \/ LoopWhile(l) \/ LoopWake(l) \/ LoopRestart(l)
    \/ LoopSubmit(l) \/ LoopText(l)

ControlStep(b) ==
    \/ RunStartPtt \/ RunStopPtt \/ PttStopped
    \/ RunTextRecognized \/ RunStatus
    \/ ToggleDisabled(b) \/ ToggleOn(b) \/ ToggleOff(b) \/ ContStopped
    \/ ApplySettings(b) \/ CloseWindow(b) \/ Destroy

\* ASRApp.__init__: the components, the flags, and _start_model_loading()
InitApp ==
    /\ is_toggle_active = FALSE
    /\ is_ptt_active = FALSE
    /\ should_stop = FALSE
    /\ toggle_var = FALSE
    /\ toggle_enabled = FALSE
    /\ afterq = <<>>
    /\ status = "loading"
    /\ listening = TRUE
    /\ closed = FALSE
    /\ ntoggles = 0
    /\ nkeys = 0
    /\ napplies = 0
    /\ pttStarts = 0
    /\ pttStops = 0
    /\ calls = <<>>
    /\ cancelled = {}

Init ==
    /\ InitAudio
    /\ InitHist
    /\ InitApp
    /\ model = FALSE /\ loaded = FALSE /\ loading = FALSE
    /\ files = {} /\ leaked = 0
    /\ audio = [t \in Threads |-> NoAudio]
    /\ text = [t \in Threads |-> EmptyText]
    /\ used = [t \in Threads |-> NotUsed]
    /\ cbOk = 0 /\ cbFail = 0 /\ nloads = 1
    /\ language = NoLanguage
    /\ pc = [t \in Threads |-> CASE t = Ctl -> "idle"
                                 [] t = Kbd -> "idle"
                                 [] t = Load -> "load_begin"
                                 [] OTHER -> "unborn"]
    /\ ret = [t \in Threads |-> "idle"]
    /\ new = [t \in Threads |-> NoStream]
    /\ cat = [t \in Threads |-> <<>>]
    /\ seg = [t \in Threads |-> NoneSeg]
    /\ arg = [t \in Threads |-> NoDevice]
    /\ exc = [t \in Threads |-> FALSE]

Next ==
    \/ ControlStep(MaxActions)
    \/ PressCheck(MaxActions) \/ PressSet \/ Release(MaxActions)
    \/ LoadStep(TRUE)
    \/ Callback(FALSE)
    \/ \E t \in {Ctl} \cup Loops : AudioStep(t)
    \/ \E l \in Loops : LoopStep(l)
    \/ \E t \in Loops \cup Workers : TranscribeStep(t, AppOutputs)
    \/ \E w \in Workers : WorkerText(w)

Spec == Init /\ [][Next]_vars

\* ------------------------------------- the application, microphone silent
\* The same application over a longer sequence of user actions, while the
\* hardware delivers no block: every stop() finds the buffer empty, so no
\* segment is transcribed.
MaxQuietActions == 3

NextQuiet ==
    \/ RunStartPtt \/ RunStopPtt \/ PttStopped \/ RunStatus
    \/ ToggleDisabled(MaxQuietActions) \/ ToggleOn(MaxQuietActions)
    \/ ToggleOff(MaxQuietActions) \/ ContStopped
    \/ ApplySettings(MaxQuietActions) \/ CloseWindow(MaxQuietActions)
    \/ Destroy
    \/ PressCheck(MaxQuietActions) \/ PressSet \/ Release(MaxQuietActions)
    \/ LoadStep(TRUE)
    \/ \E t \in {Ctl} \cup Loops :
        \/ StartStep(t) \/ SetDeviceStep(t) \/ CloseStep(t)
        \/ StopFlag(t) \/ StopIf(t) \/ StopStream(t) \/ StopLock(t)
    \/ \E l \in Loops :
        LoopWhile(l) \/ LoopWake(l) \/ LoopRestart(l) \/ LoopSubmit(l)

SpecQuiet == Init /\ [][NextQuiet]_vars

\* ------------------------------------ the application, push-to-talk only
\* The user does nothing but press and release the key, with audio: each
\* accepted release hands its segment to a worker of its own.
MaxPttActions == 4

NextPtt ==
    \/ PressCheck(MaxPttActions) \/ PressSet \/ Release(MaxPttActions)
    \/ RunStartPtt \/ RunStopPtt \/ PttStopped
    \/ RunTextRecognized \/ RunStatus
    \/ LoadStep(TRUE)
    \/ Callback(FALSE)
    \/ StartStep(Ctl) \/ StopStep(Ctl)
    \/ \E w \in Workers : TranscribeStep(w, AppOutputs) \/ WorkerText(w)

SpecPtt == Init /\ [][NextPtt]_vars

\* ================================================================= claims
IsPrefix(a, b) == Len(a) <= Len(b) /\ SubSeq(b, 1, Len(a)) = a

\* The client's last call was op, and it has returned without raising.
Returned(op) == pc[Ctl] = "idle" /\ snap.op = op /\ ~exc[Ctl]

\* The positions inside start() and inside set_device().
StartPcs == {"start_check", "start_open", "start_assign", "start_flag",
             "start_clear", "start_if", "start_stream"}
SetDevicePcs == {"setdev_if", "setdev_close", "setdev_none", "setdev_assign"}

\* C1: the first stop() after a start() returns exactly the blocks appended
\* since that start() cleared the buffer, in append order, so its sample
\* count is the sum of their lengths (None when there are none); a stop()
\* that directly follows a stop() returns None.
C1_DrainReturnsAppended ==
    Returned("stop") =>
        /\ stops = 1 =>
            /\ seg[Ctl] = (IF sinceStart = <<>> THEN NoneSeg
                                                  ELSE Segment(sinceStart))
            /\ SampleCount(seg[Ctl]) = Len(sinceStart) * BlockSize
        /\ snap.prev = "stop" => seg[Ctl] = NoneSeg

\* A stop() returned two blocks in order, and the stop() after it None.
C1_Witness ==
    /\ Returned("stop")
    /\ snap.prev = "stop"
    /\ seg[Ctl] = NoneSeg
    /\ Len(sinceStart) >= 2
    /\ \A c \in 1..Len(sinceStart) : handed[sinceStart[c]] = 1

\* C3: the first stop() after a start() returns every block that was in the
\* buffer when the stop() was requested, and from the return of a stop() to
\* the next start() the buffer stays empty and no callback is about to
\* append.
C3_StopOrdersWithCallback ==
    /\ (Returned("stop") /\ stops = 1) => IsPrefix(snap.since, seg[Ctl].chunks)
    /\ (stops >= 1 /\ pc[Ctl] \notin StartPcs) =>
            /\ buffer = <<>>
            /\ \A s \in Streams : cb[s] = 0

\* A stop() requested while a callback was in progress returned that
\* callback's block too.
C3_Witness ==
    /\ Returned("stop")
    /\ stops = 1
    /\ snap.busy
    /\ snap.since # <<>>
    /\ Len(seg[Ctl].chunks) > Len(snap.since)

\* C2: no block is handed out twice.  Whatever the interleaving of the
\* callback with the stop() calls of the two threads, a block is part of at
\* most one returned segment, and a block that was returned is no longer in
\* the buffer, so that no later stop() can return it again.
C2_HandedOnce ==
    \A c \in Chunks :
        /\ handed[c] <= 1
        /\ handed[c] = 1 => c \notin Elems(buffer)

\* C2, its case: both threads hold a segment that their stop() returned, the
\* loop thread's drained while the control thread's stop() was under way.
C2_Witness ==
    /\ pc[Ctl] = "idle"
    /\ pc[Loop(1)] = "idle"
    /\ seg[Ctl].chunks # <<>>
    /\ seg[Loop(1)].chunks # <<>>
    /\ \A c \in Elems(seg[Ctl].chunks) \cup Elems(seg[Loop(1)].chunks) :
            handed[c] = 1

\* C3 (the claim as stated, in the application): once a stop() has returned
\* and no start() has been begun since, the buffer stays empty and no
\* callback is about to append.
C3_QuietAfterStop ==
    (/\ stops >= 1
     /\ ~is_recording
     /\ \A t \in Threads : pc[t] \notin StartPcs) =>
        /\ buffer = <<>>
        /\ \A s \in Streams : cb[s] = 0

\* C6 (the claim as stated): at most one stream is open, that is, opened and
\* not yet closed.
OpenStreams == {s \in Streams : hw[s].st \in {"stopped", "active"}}
C6_OneOpenStream == Cardinality(OpenStreams) <= 1

\* C4 (the claim as stated): a start() issued while is_recording is true
\* leaves the flag, the stream handle and the blocks already buffered as they
\* were.
C4_StartIdempotent ==
    (Returned("start") /\ snap.rec) =>
        /\ is_recording
        /\ stream = snap.stream
        /\ IsPrefix(snap.buffer, buffer)

\* No block was appended between the drain before the client's last stop()
\* and that stop()'s own drain (which a stop() that raised never reached).
NoAppendSinceDrain == IF exc[Ctl] THEN ~fresh ELSE ~drainedFresh

\* C5: a stop() before which no block was appended since the last drain
\* returns None, raises nothing, and leaves the stream handle and the device
\* selection as they were when it was called.
C5_EmptyStop ==
    (pc[Ctl] = "idle" /\ snap.op = "stop" /\ NoAppendSinceDrain) =>
        /\ ~exc[Ctl]
        /\ seg[Ctl] = NoneSeg
        /\ stream = snap.stream
        /\ device = snap.device

\* stop() returned None on a session that never had a stream, and on one
\* that is open and was recording.
C5_Witness ==
    /\ Returned("stop")
    /\ ~drainedFresh
    /\ seg[Ctl] = NoneSeg
    /\ snap.rec
    /\ stream # NoStream
    /\ sinceStart = <<>>

\* C7: outside a set_device call, the selected device is the argument of the
\* last set_device call.
C7_DeviceRoundTrip ==
    (lastSet.set /\ pc[Ctl] \notin SetDevicePcs) => device = lastSet.dev

\* After set_device(1), a start(), a stop() and a close() have run and the
\* selection is still 1.
C7_Witness ==
    /\ Returned("close")
    /\ snap.prev = "stop"
    /\ lastSet.set
    /\ lastSet.dev = 1
    /\ device = 1
    /\ snap.stream # NoStream
    /\ stream = NoStream

\* The client's last call was transcribe() and it has ended, by returning or
\* by raising.
TranscribeEnded == pc[Ctl] = "idle" /\ snap.op = "transcribe"

\* C8: while the engine is not ready, transcribe() returns "" for every
\* argument, without invoking the engine and without creating a temporary
\* file.
C8_NotReadyReturnsEmpty ==
    (TranscribeEnded /\ ~loaded) =>
        /\ ~exc[Ctl]
        /\ text[Ctl] = EmptyText
        /\ ~used[Ctl].engine
        /\ ~used[Ctl].file

\* transcribe() of a full second of audio ended while the only load had
\* failed.
C8_Witness ==
    /\ TranscribeEnded
    /\ ~loaded
    /\ pc[Load] = "done"
    /\ cbFail = 1
    /\ audio[Ctl] = Samples(10 * BlockSize)
    /\ text[Ctl] = EmptyText

\* C9: on an engine that was ready when transcribe() was called, audio_data
\* of fewer than sample_rate / 2 samples (or None) gives "" with no engine
\* invocation and no temporary file; audio_data of sample_rate / 2 samples or
\* more passes the floor: its temporary file is written and, once written,
\* handed to the engine.
C9_MinimumDuration ==
    (TranscribeEnded /\ snap.rec) =>
        IF audio[Ctl].none \/ 2 * audio[Ctl].n < DEFAULT_SAMPLE_RATE
        THEN /\ ~exc[Ctl]
             /\ text[Ctl] = EmptyText
             /\ ~used[Ctl].engine
             /\ ~used[Ctl].file
        ELSE \/ used[Ctl].engine
             \/ used[Ctl].fault \in {"mkstemp", "write"}

\* Exactly 8000 samples went to the engine and text came back.
C9_Witness ==
    /\ TranscribeEnded
    /\ snap.rec
    /\ audio[Ctl] = Samples(8000)
    /\ used[Ctl].engine
    /\ text[Ctl] # EmptyText

\* C10 (the claim as stated): no transcribe() call ends by raising.
C10_NeverRaises == TranscribeEnded => ~exc[Ctl]

\* The positions inside transcribe().
TranscribePcs == {"tr_ready", "tr_len", "tr_write", "tr_engine", "tr_delete"}

\* C11 (the claim as stated): while no transcribe() call is in progress, no
\* temporary file of a call exists, neither of a call that returned nor of
\* one that raised.
C11_NoFileLeftBehind ==
    (\A t \in Threads : pc[t] \notin TranscribePcs) =>
        /\ files = {}
        /\ leaked = 0

\* The text between the first and the last character of s that is not a
\* space.
Inked(s) == {i \in 1..Len(s) : s[i] # " "}
Trimmed(s) ==
    IF Inked(s) = {} THEN <<>>
    ELSE SubSeq(s, CHOOSE i \in Inked(s) : \A j \in Inked(s) : i <= j,
                   CHOOSE i \in Inked(s) : \A j \in Inked(s) : i >= j)
\* The trimmed texts of ts that are not empty, in order.
NonBlank(ts) ==
    SelectSeq([i \in 1..Len(ts) |-> Trimmed(ts[i])], LAMBDA w : w # <<>>)
\* The words ws with one space between neighbours.
RECURSIVE SpaceJoin(_)
SpaceJoin(ws) ==
    IF ws = <<>> THEN <<>>
    ELSE IF Len(ws) = 1 THEN ws[1]
    ELSE SpaceJoin(SubSeq(ws, 1, Len(ws) - 1)) \o <<" ">> \o ws[Len(ws)]
DoubledSpace(s) == \E i \in 1..(Len(s) - 1) : s[i] = " " /\ s[i + 1] = " "

C13_CallbackOnce ==
    (nloads = 1 /\ pc[Load] \in {"done", "dead"}) =>
        /\ cbOk + cbFail = 1
        /\ cbOk = 1 <=> loaded

\* C14: readiness is never taken back.  No step of a client, of transcribe()
\* or of a later load that fails makes is_ready() false once it was true.
C14_ReadyStaysReady == [][loaded => loaded']_vars

\* The engine is ready, a transcribe() call has met an engine error, the
\* language was changed, and a second load has failed to construct its model.
C14_Witness ==
    /\ loaded
    /\ nloads = 2
    /\ pc[Load] = "load_except"
    /\ cbOk = 1
    /\ cbFail = 0
    /\ language # NoLanguage
    /\ TranscribeEnded
    /\ used[Ctl].fault = "engine"

\* The start-up load has failed: the model was not constructed.
LoadFailed ==
    ~model /\ pc[Load] \in {"load_except", "load_finally", "done", "dead"}

\* The scheduled push-to-talk calls, in order.
PttQueue == SelectSeq(afterq, LAMBDA e : e.kind \in {"start_ptt", "stop_ptt"})

\* Push-to-talk has been refused so far: the flag is down and no capture
\* start() was made or scheduled by the key handler.
PttRefused ==
    /\ ~is_ptt_active
    /\ pc[Kbd] # "press_set"
    /\ PttQueue = <<>>
    /\ pttStarts = 0
    /\ pttStops = 0

\* Continuous mode has been refused so far: flag and switch variable are off
\* and no loop thread was spawned.
ToggleRefused ==
    /\ ~is_toggle_active
    /\ ~toggle_var
    /\ \A l \in Loops : pc[l] = "unborn"

C16_NotReadyRejects ==
    ~loaded =>
        /\ PttRefused
        /\ ToggleRefused
        /\ listening => ~should_stop
        /\ ~is_recording
        /\ stream = NoStream
        /\ \A s \in Streams : hw[s].st = "free"

\* The key was pressed and the switch was clicked while the model was still
\* being constructed.
C16_Witness ==
    /\ ~loaded
    /\ pc[Load] = "load_construct"
    /\ nkeys = 1
    /\ ntoggles = 1
    /\ pc[Ctl] = "idle"
    /\ pc[Kbd] = "idle"

\* C17 (the claim as stated): while is_toggle_active is true, a key event
\* changes neither is_ptt_active nor what is scheduled.
C17_PttIgnoredInContinuous ==
    [][(is_toggle_active /\ nkeys' # nkeys) =>
            /\ is_ptt_active' = is_ptt_active
            /\ afterq' = afterq]_vars

\* C18 (the claim as stated): the two mode flags are never both true.
C18_OneMode == ~(is_ptt_active /\ is_toggle_active)

\* C19: the capture calls that push-to-talk makes alternate, start() first:
\* at any time it has made as many stop() calls as start() calls, or one
\* less, and the calls it has scheduled continue that alternation; while the
\* listener runs, is_ptt_active is true exactly when the last call made or
\* scheduled is a start().  So a key-down while the key is down and a key-up
\* while it is up schedule nothing, and every stop() runs after the start()
\* before it.
C19_PttEdgesAlternate ==
    /\ pttStops <= pttStarts
    /\ pttStarts <= pttStops + 1
    /\ \A i \in 1..Len(PttQueue) :
        PttQueue[i].kind = IF (pttStarts - pttStops + i) % 2 = 1
                           THEN "start_ptt" ELSE "stop_ptt"
    /\ listening =>
            (is_ptt_active <=> (pttStarts - pttStops + Len(PttQueue)) % 2 = 1)

\* Three key events (press, release, press) have made two start() calls and
\* one stop() between them; the key is down.
C19_Witness ==
    /\ nkeys = 3
    /\ pttStarts = 2
    /\ pttStops = 1
    /\ pc[Ctl] = "idle"
    /\ is_ptt_active

\* The positions inside stop().
StopPcs == {"stop_flag", "stop_if", "stop_stream", "stop_lock", "stop_concat",
            "stop_clear"}

\* Something is under way that ends by setting the status to ready: the
\* stop() of a release or its handler's check of the segment, a worker that
\* transcribes or reports, or a scheduled status update.
ReadyPending ==
    \/ pc[Ctl] \in StopPcs \cup {"ptt_stopped"}
    \/ \E w \in Workers : pc[w] \in TranscribePcs \cup {"worker_text"}
    \/ \E i \in 1..Len(afterq) : afterq[i].kind = "status_ready"

\* C20 (the claim as stated): after a release the status returns to ready.
\* While the window is open and the status still shows the recognition of a
\* released segment, the step that sets it to ready is still to come; and a
\* release makes one stop() call and starts at most one worker.
C20_StatusReturnsToReady ==
    /\ (status = "recognizing" /\ listening) => ReadyPending
    /\ pttStops <= nkeys
    /\ Cardinality({w \in Workers : pc[w] \notin {"unborn", "done", "dead"}})
            <= pttStops

\* Without an exception in the worker the status does return: the claim
\* fails only through the error that transcribe() lets escape.
C20_ReturnsUnlessRaised ==
    (\A w \in Workers : ~exc[w]) => C20_StatusReturnsToReady

\* The threads inside transcribe().
Transcribing == {t \in Threads : pc[t] \in TranscribePcs}

\* C21 (the claim as stated): at most one transcribe() call is in progress.
C21_OneTranscription == Cardinality(Transcribing) <= 1

\* The positions inside load_model's _load.
LoadPcs == {"load_begin", "load_construct", "load_set", "load_cb_ok",
            "load_except", "load_finally"}

\* C22: the control thread (and the keyboard listener) is never inside
\* _load or transcribe(): model construction runs on the load thread only,
\* transcribe() on a loop thread or a push-to-talk worker only, and the
\* control thread holds no audio argument, engine result or returned text of
\* its own, so that a recognized text reaches it only as a scheduled
\* callback.
C22_ControlNeverBlocks ==
    /\ \A t \in Threads : pc[t] \in LoadPcs => t = Load
    /\ \A t \in Threads : pc[t] \in TranscribePcs => t \in Loops \cup Workers
    /\ \A t \in {Ctl, Kbd} :
        /\ audio[t] = NoAudio
        /\ text[t] = EmptyText
        /\ used[t] = NotUsed

\* A worker has finished and its text waits, scheduled, for the idle control
\* thread.
C22_Witness ==
    /\ pc[Ctl] = "idle"
    /\ pc[Worker(1)] = "done"
    /\ afterq # <<>>
    /\ Head(afterq).kind = "text"
    /\ Head(afterq).src = "ptt"
    /\ Head(afterq).text # EmptyText

\* Continuous mode was enabled once and disabled again, nothing else was
\* done, _stop_continuous_recognition has returned and the loop thread has
\* left its loop.
DisabledAndExited ==
    /\ ntoggles = 2
    /\ nkeys = 0
    /\ napplies = 0
    /\ listening
    /\ ~toggle_var
    /\ ~is_toggle_active
    /\ pc[Ctl] = "idle"
    /\ Running(Loops) = {}
    /\ \E l \in Loops : pc[l] = "done"

\* C23 (the claim as stated): once continuous mode is disabled and the loop
\* thread has exited, the capture session is not recording and no stream is
\* started.
C23_DisabledIsHalted ==
    DisabledAndExited =>
        /\ ~is_recording
        /\ \A s \in Streams : hw[s].st # "active"

\* C24 (the claim as stated): while the cancellation flag is set and the
\* window is open, no loop thread enters transcribe().
C24_NoSubmitAfterDisable ==
    [][(should_stop /\ listening) =>
          \A l \in Loops : pc'[l] = "tr_ready" => pc[l] = "tr_ready"]_vars

\* C26 (the claim as stated): a text recognized from a continuous-mode
\* segment is handed to _on_text_recognized only while continuous mode is
\* enabled.
C26_NoDeliveryAfterDisable ==
    [][(/\ afterq # <<>>
        /\ Head(afterq).kind = "text"
        /\ Head(afterq).src = "loop"
        /\ afterq' = Tail(afterq)) => is_toggle_active]_vars

\* C27 (the claim as stated): while a loop thread stands between its stop()
\* and the start() that follows, no other thread changes the session's
\* stream, device or recording flag, nor the state of a hardware stream.
C27_StopStartAtomic ==
    [][\A l \in Loops :
          (pc[l] = "loop_restart" /\ pc'[l] = "loop_restart") =>
              UNCHANGED <<stream, device, is_recording, hw>>]_vars

\* C29 (the claim as stated): a stream the session holds was opened with the
\* currently selected device.
C29_StreamOnSelectedDevice ==
    stream # NoStream => hw[stream].dev = device

\* C25 (the claim as stated): a loop thread that was running when continuous
\* mode was disabled (or the window closed) leaves its loop at its next
\* check of the cancellation flag, before the sleep or after it.
C25_CancelledLoopExits ==
    [][\A l \in cancelled :
          /\ (pc[l] = "loop_while" /\ pc'[l] # "loop_while") => pc'[l] = "done"
          /\ (pc[l] = "loop_sleep" /\ pc'[l] # "loop_sleep") => pc'[l] = "done"]_vars

\* How often the call x occurs in the history q.
Count(q, x) == Cardinality({i \in 1..Len(q) : q[i] = x})

\* Continuous mode was enabled and, after the loop had woken from exactly
\* one sleep with the flag clear, disabled again; nothing else was done,
\* _stop_continuous_recognition has returned and the loop thread is gone.
OneWindowThenIdle ==
    /\ ntoggles = 2
    /\ nkeys = 0
    /\ napplies = 0
    /\ listening
    /\ ~toggle_var
    /\ pc[Ctl] = "idle"
    /\ Running(Loops) = {}
    /\ Count(calls, "loop.stop") = 1
    /\ calls[Len(calls)] = "ctl.stop"

\* C28 (the claim as stated): in that session the capture session was asked
\* for one start() and one stop().
C28_OneStartOneStop ==
    OneWindowThenIdle =>
        /\ Count(calls, "loop.start") = 1
        /\ Count(calls, "loop.stop") + Count(calls, "ctl.stop") = 1

\* Every such session has made the loop's stop() and the disable's stop(),
\* and one or two start() calls.
C28_TwoStops ==
    OneWindowThenIdle =>
        /\ Count(calls, "loop.start") \in {1, 2}
        /\ Count(calls, "loop.stop") + Count(calls, "ctl.stop") = 2

\* C30: set_device (and close) never removes a block from the buffer: from
\* the call on, the buffer still begins with the blocks it held when the
\* call was made, the callback adding to its end; and a stop() issued right
\* after set_device returns the whole buffer it found, in order.
C30_SetDeviceKeepsBuffer ==
    /\ snap.op \in {"set_device", "close"} => IsPrefix(snap.buffer, buffer)
    /\ (Returned("stop") /\ snap.prev = "set_device") =>
           /\ seg[Ctl].chunks = snap.buffer
           /\ seg[Ctl].some <=> snap.buffer # <<>>
           /\ buffer = <<>>

\* Two blocks were recorded, set_device closed the stream, and the stop()
\* issued right after it has returned both blocks.
C30_Witness ==
    /\ Returned("stop")
    /\ snap.prev = "set_device"
    /\ snap.stream = NoStream
    /\ Len(snap.buffer) >= 2
    /\ seg[Ctl].some
    /\ seg[Ctl].chunks = snap.buffer

\* C32 (the claim as stated): while is_recording is true the session holds a
\* stream.
C32_RecordingHasStream == is_recording => stream # NoStream

\* C34 (the claim as stated): at most one continuous-loop thread is alive.
C34_OneLoopAlive == Cardinality(Running(Loops)) <= 1

\* C35 (the claim as stated): while is_toggle_active is true and the
\* cancellation flag is clear, a continuous-loop thread is running.
C35_ActiveHasLoop ==
    (is_toggle_active /\ ~should_stop) => Running(Loops) # {}

\* C36 (the claim as stated): once _on_close has called close() and gone on
\* to destroy the window, no hardware stream is open.
C36_NoStreamAfterClose ==
    pc[Ctl] \in {"destroy", "closed"} =>
        \A s \in Streams : hw[s].st \in {"free", "closed"}

\* C33: a start() whose open failed has raised to its caller, and a start()
\* that raised has left the session as the call found it: no stream handle,
\* is_recording, the buffer and the device selection unchanged.  A start()
\* that ended without a stream is one that raised.
C33_FailedOpenLeavesSession ==
    (pc[Ctl] = "idle" /\ snap.op = "start") =>
        /\ exc[Ctl] <=> stream = NoStream
        /\ exc[Ctl] =>
            /\ snap.stream = NoStream
            /\ is_recording = snap.rec
            /\ buffer = snap.buffer
            /\ device = snap.device

\* The session was recording and held blocks when set_device dropped its
\* stream; the start() after it failed to open, and the session still says
\* recording and still holds the blocks.
C33_Witness ==
    /\ pc[Ctl] = "idle"
    /\ snap.op = "start"
    /\ snap.prev = "set_device"
    /\ exc[Ctl]
    /\ is_recording
    /\ buffer # <<>>

\* The integer v is a nearest integer to amp / AmpScale * 32767.
IsNearest(v, amp) ==
    LET d == v * AmpScale - amp * 32767
    IN  2 * (IF d >= 0 THEN d ELSE -d) <= AmpScale

\* C31 (the claim as stated): the value written for a sample of amplitude
\* amp / AmpScale is a nearest integer to amp / AmpScale * 32767 and lies
\* in [-32767, 32767].
C31_PcmIsRounded ==
    pc[Ctl] = "tr_engine" =>
        /\ IsNearest(used[Ctl].pcm, audio[Ctl].amp)
        /\ used[Ctl].pcm \in -32767..32767

\* What the code does write: the product with its fraction dropped, which
\* is in range, never further from zero than the product and less than one
\* away from it.
C31_PcmIsTruncated ==
    pc[Ctl] = "tr_engine" =>
        LET v == used[Ctl].pcm
            num == audio[Ctl].amp * 32767
            a == IF v >= 0 THEN v ELSE -v
            m == IF num >= 0 THEN num ELSE -num
        IN  /\ v \in -32767..32767
            /\ a * AmpScale <= m
            /\ m < (a + 1) * AmpScale
            /\ (v > 0 => num > 0) /\ (v < 0 => num < 0)

====
